---- MODULE Spec2Model ----
(***************************************************************************)
(* Layered dispatch decoder of etherparse (src/src/packet_decoder.rs):     *)
(* PacketHeaders::from_ethernet_slice, PacketHeaders::from_ip_slice and    *)
(* read_transport.  The per-header decoders (Ethernet2Header,              *)
(* SingleVlanHeader, Ipv4Header, Ipv6Header, IpHeader, TcpHeader,          *)
(* UdpHeader, Ipv6Header::skip_all_header_extensions_in_slice) live        *)
(* outside packet_decoder.rs; they are modelled on real byte layouts from  *)
(* their interface contract.                                               *)
(*                                                                         *)
(* A byte slice &[u8] is a record [off, len] into the input buffer         *)
(* `packet`.  A decode call runs in steps, one per collaborator call site, *)
(* keeping the function's locals (rest, ether_type, outer, ip, protocol,   *)
(* result) in the state.  `calls` is the history of collaborator           *)
(* invocations of the running call.                                        *)
(***************************************************************************)
EXTENDS Integers, Sequences, FiniteSets, TLC

VARIABLES packet, entry, pc, rest, ether_type, outer, ip, protocol, result, ret, calls

vars == <<packet, entry, pc, rest, ether_type, outer, ip, protocol, result, ret, calls>>

(***************************** bounds **************************************)
\* the trailing payload of a generated input has 0 or MaxPayloadLen bytes
MaxPayloadLen == 2
\* a generated input is cut short by 0..MaxCut bytes
MaxCut == 1
\* hdr_ext_len values 0..MaxHdrExtLen of generated IPv6 extension headers
MaxHdrExtLen == 1

(************************* program constants *******************************)
VLAN_TAGGED_FRAME == 33024
PROVIDER_BRIDGING == 34984
VLAN_DOUBLE_TAGGED_FRAME == 37120
IPV4 == 2048
IPV6 == 34525
UDP == 17
TCP == 6

\* sizes and ids of the collaborators' header layouts
ETHERNET2_SIZE == 14
VLAN_SIZE == 4
IPV4_MIN_SIZE == 20
IPV6_SIZE == 40
UDP_SIZE == 8
TCP_MIN_SIZE == 20
IPV6_HOP_BY_HOP == 0
IPV6_ROUTE == 43
IPV6_FRAG == 44
IPV6_DEST_OPTIONS == 60
ARP == 2054

(****************************** slices *************************************)
None == [kind |-> "None"]

Slice(o, l) == [off |-> o, len |-> l]

\* the empty slice &[]
EmptySlice == Slice(0, 0)

\* &packet
WholeSlice(p) == Slice(0, Len(p))

\* &slice[n..]
SliceFrom(sl, n) == Slice(sl.off + n, sl.len - n)

\* the bytes a slice views
Bytes(p, sl) == SubSeq(p, sl.off + 1, sl.off + sl.len)

\* slice[i], 0-based
At(p, sl, i) == p[sl.off + i + 1]

\* big-endian u16
U16(hi, lo) == hi * 256 + lo

(**************************** collaborators ********************************)
\* Result<(Header, &[u8]), ReadError> of a collaborator, with its call record
CallOk(name, arg, h, r) ==
    [ok |-> TRUE, header |-> h, rest |-> r, error |-> "",
     call |-> [name |-> name, arg |-> arg, ok |-> TRUE, rest |-> r, error |-> ""]]

CallErr(name, arg, e) ==
    [ok |-> FALSE, header |-> None, rest |-> arg, error |-> e,
     call |-> [name |-> name, arg |-> arg, ok |-> FALSE, rest |-> arg, error |-> e]]

Ethernet2Header_read_from_slice(p, sl) ==
    IF sl.len < ETHERNET2_SIZE
    THEN CallErr("Ethernet2Header", sl, "UnexpectedEndOfSlice")
    ELSE CallOk("Ethernet2Header", sl,
                [kind |-> "Ethernet2",
                 ether_type |-> U16(At(p, sl, 12), At(p, sl, 13)),
                 bytes |-> Bytes(p, Slice(sl.off, ETHERNET2_SIZE))],
                SliceFrom(sl, ETHERNET2_SIZE))

SingleVlanHeader_read_from_slice(p, sl) ==
    IF sl.len < VLAN_SIZE
    THEN CallErr("SingleVlanHeader", sl, "UnexpectedEndOfSlice")
    ELSE CallOk("SingleVlanHeader", sl,
                [kind |-> "SingleVlan",
                 ether_type |-> U16(At(p, sl, 2), At(p, sl, 3)),
                 bytes |-> Bytes(p, Slice(sl.off, VLAN_SIZE))],
                SliceFrom(sl, VLAN_SIZE))

Ipv4Read(name, p, sl) ==
    IF sl.len < IPV4_MIN_SIZE
    THEN CallErr(name, sl, "UnexpectedEndOfSlice")
    ELSE LET version == At(p, sl, 0) \div 16
             ihl == At(p, sl, 0) % 16
         IN  IF version # 4 THEN CallErr(name, sl, "Ipv4UnexpectedVersion")
             ELSE IF ihl < 5 THEN CallErr(name, sl, "Ipv4HeaderLengthBad")
             ELSE IF sl.len < ihl * 4 THEN CallErr(name, sl, "UnexpectedEndOfSlice")
             ELSE CallOk(name, sl,
                         [kind |-> "Version4",
                          protocol |-> At(p, sl, 9),
                          bytes |-> Bytes(p, Slice(sl.off, ihl * 4))],
                         SliceFrom(sl, ihl * 4))

Ipv6Read(name, p, sl) ==
    IF sl.len < IPV6_SIZE
    THEN CallErr(name, sl, "UnexpectedEndOfSlice")
    ELSE IF At(p, sl, 0) \div 16 # 6 THEN CallErr(name, sl, "Ipv6UnexpectedVersion")
    ELSE CallOk(name, sl,
                [kind |-> "Version6",
                 next_header |-> At(p, sl, 6),
                 bytes |-> Bytes(p, Slice(sl.off, IPV6_SIZE))],
                SliceFrom(sl, IPV6_SIZE))

Ipv4Header_read_from_slice(p, sl) == Ipv4Read("Ipv4Header", p, sl)

Ipv6Header_read_from_slice(p, sl) == Ipv6Read("Ipv6Header", p, sl)

\* the version-sensing collaborator
IpHeader_read_from_slice(p, sl) ==
    IF sl.len = 0 THEN CallErr("IpHeader", sl, "UnexpectedEndOfSlice")
    ELSE LET version == At(p, sl, 0) \div 16
         IN  IF version = 4 THEN Ipv4Read("IpHeader", p, sl)
             ELSE IF version = 6 THEN Ipv6Read("IpHeader", p, sl)
             ELSE CallErr("IpHeader", sl, "IpUnsupportedVersion")

IsHeaderExtension(id) ==
    id \in {IPV6_HOP_BY_HOP, IPV6_ROUTE, IPV6_FRAG, IPV6_DEST_OPTIONS}

\* walks the chain: (final protocol number, remainder) or a failure
RECURSIVE SkipExtensions(_, _, _)
SkipExtensions(p, sl, next_header) ==
    IF ~IsHeaderExtension(next_header)
    THEN [ok |-> TRUE, protocol |-> next_header, rest |-> sl]
    ELSE IF sl.len < 2 THEN [ok |-> FALSE, protocol |-> next_header, rest |-> sl]
    ELSE LET size == IF next_header = IPV6_FRAG THEN 8 ELSE (At(p, sl, 1) + 1) * 8
         IN  IF sl.len < size THEN [ok |-> FALSE, protocol |-> next_header, rest |-> sl]
             ELSE SkipExtensions(p, SliceFrom(sl, size), At(p, sl, 0))

Ipv6Header_skip_all_header_extensions_in_slice(p, sl, next_header) ==
    LET r == SkipExtensions(p, sl, next_header)
        c == [name |-> "skip_all_header_extensions", arg |-> sl, ok |-> r.ok,
              rest |-> IF r.ok THEN r.rest ELSE sl,
              error |-> IF r.ok THEN "" ELSE "UnexpectedEndOfSlice",
              seed |-> next_header, final |-> r.protocol]
    IN  [ok |-> r.ok, protocol |-> r.protocol, rest |-> c.rest,
         error |-> c.error, call |-> c]

UdpHeader_read_from_slice(p, sl) ==
    IF sl.len < UDP_SIZE
    THEN CallErr("UdpHeader", sl, "UnexpectedEndOfSlice")
    ELSE CallOk("UdpHeader", sl,
                [kind |-> "Udp", bytes |-> Bytes(p, Slice(sl.off, UDP_SIZE))],
                SliceFrom(sl, UDP_SIZE))

TcpHeader_read_from_slice(p, sl) ==
    IF sl.len < TCP_MIN_SIZE
    THEN CallErr("TcpHeader", sl, "UnexpectedEndOfSlice")
    ELSE LET data_offset == At(p, sl, 12) \div 16
         IN  IF data_offset < 5 THEN CallErr("TcpHeader", sl, "TcpDataOffsetTooSmall")
             ELSE IF sl.len < data_offset * 4
                  THEN CallErr("TcpHeader", sl, "UnexpectedEndOfSlice")
             ELSE CallOk("TcpHeader", sl,
                         [kind |-> "Tcp", bytes |-> Bytes(p, Slice(sl.off, data_offset * 4))],
                         SliceFrom(sl, data_offset * 4))

(************************** read_transport **********************************)
\* mutant: every protocol number that is not TCP is handed to the UDP decoder
read_transport_DefaultUdp(p, proto, sl) ==
    IF proto = TCP
    THEN LET r == TcpHeader_read_from_slice(p, sl)
         IN  [ok |-> r.ok, transport |-> r.header, rest |-> r.rest,
              error |-> r.error, calls |-> <<r.call>>]
    ELSE LET r == UdpHeader_read_from_slice(p, sl)
         IN  [ok |-> r.ok, transport |-> r.header, rest |-> r.rest,
              error |-> r.error, calls |-> <<r.call>>]

\* fn read_transport(protocol, rest): the transport header (or None), the
\* remainder, and the collaborator calls made
read_transport(p, proto, sl) ==
    IF proto = UDP
    THEN LET r == UdpHeader_read_from_slice(p, sl)
         IN  [ok |-> r.ok, transport |-> r.header, rest |-> r.rest,
              error |-> r.error, calls |-> <<r.call>>]
    ELSE IF proto = TCP
    THEN LET r == TcpHeader_read_from_slice(p, sl)
         IN  [ok |-> r.ok, transport |-> r.header, rest |-> r.rest,
              error |-> r.error, calls |-> <<r.call>>]
    ELSE [ok |-> TRUE, transport |-> None, rest |-> sl, error |-> "", calls |-> <<>>]

(*************************** decoder state *********************************)
\* struct PacketHeaders
PacketHeaders(l, v, i, t, pl) ==
    [link |-> l, vlan |-> v, ip |-> i, transport |-> t, payload |-> pl]

\* VlanHeader::Single / VlanHeader::Double
Single(o) == [kind |-> "Single", outer |-> o]

Double(o, i) == [kind |-> "Double", outer |-> o, inner |-> i]

Pending == [tag |-> "Pending"]

Ok(v) == [tag |-> "Ok", value |-> v]

Err(e) == [tag |-> "Err", error |-> e]

\* the state of a call at its entry
CallState(p, e) ==
    [packet |-> p, entry |-> e,
     pc |-> IF e = "eth" THEN "eth_link" ELSE "ip_network",
     rest |-> WholeSlice(p), ether_type |-> 0, outer |-> None, ip |-> None,
     protocol |-> 0,
     result |-> PacketHeaders(None, None, None, None, EmptySlice),
     ret |-> Pending, calls |-> <<>>]

\* the `?` operator on a failed collaborator call: return Err, drop the locals
Abort(s, e, cs) ==
    [s EXCEPT !.pc = "done", !.ret = Err(e), !.calls = @ \o cs]

(************************ from_ethernet_slice ******************************)
\* from_ethernet_slice, lines 20-29: the link header
EthLink(s) ==
    LET r == Ethernet2Header_read_from_slice(s.packet, WholeSlice(s.packet))
    IN  IF ~r.ok THEN Abort(s, r.error, <<r.call>>)
        ELSE [s EXCEPT !.rest = r.rest,
                       !.ether_type = r.header.ether_type,
                       !.result = PacketHeaders(r.header, None, None, None, EmptySlice),
                       !.calls = Append(@, r.call),
                       !.pc = "eth_vlan_outer"]

\* mutant: `rest = outer_rest` is left out
EthVlanOuter_KeepsRest(s) ==
    IF s.ether_type \in {VLAN_TAGGED_FRAME, PROVIDER_BRIDGING, VLAN_DOUBLE_TAGGED_FRAME}
    THEN LET r == SingleVlanHeader_read_from_slice(s.packet, s.rest)
         IN  IF ~r.ok THEN Abort(s, r.error, <<r.call>>)
             ELSE [s EXCEPT !.outer = r.header,
                            !.ether_type = r.header.ether_type,
                            !.calls = Append(@, r.call),
                            !.pc = "eth_vlan_inner"]
    ELSE [s EXCEPT !.result.vlan = None, !.pc = "eth_network"]

\* lines 38-46 and 67-68: the outer VLAN tag, or no tag
EthVlanOuter(s) ==
    IF s.ether_type \in {VLAN_TAGGED_FRAME, PROVIDER_BRIDGING, VLAN_DOUBLE_TAGGED_FRAME}
    THEN LET r == SingleVlanHeader_read_from_slice(s.packet, s.rest)
         IN  IF ~r.ok THEN Abort(s, r.error, <<r.call>>)
             ELSE [s EXCEPT !.outer = r.header,
                            !.rest = r.rest,
                            !.ether_type = r.header.ether_type,
                            !.calls = Append(@, r.call),
                            !.pc = "eth_vlan_inner"]
    ELSE [s EXCEPT !.result.vlan = None, !.pc = "eth_network"]

\* mutant: the tag chain is followed one tag further
EthVlanInner_ThirdTag(s) ==
    IF s.ether_type \in {VLAN_TAGGED_FRAME, PROVIDER_BRIDGING, VLAN_DOUBLE_TAGGED_FRAME}
    THEN LET r == SingleVlanHeader_read_from_slice(s.packet, s.rest)
         IN  IF ~r.ok THEN Abort(s, r.error, <<r.call>>)
             ELSE IF r.header.ether_type \in
                        {VLAN_TAGGED_FRAME, PROVIDER_BRIDGING, VLAN_DOUBLE_TAGGED_FRAME}
             THEN LET q == SingleVlanHeader_read_from_slice(s.packet, r.rest)
                  IN  IF ~q.ok THEN Abort(s, q.error, <<r.call, q.call>>)
                      ELSE [s EXCEPT !.rest = q.rest,
                                     !.ether_type = q.header.ether_type,
                                     !.result.vlan = Double(s.outer, r.header),
                                     !.calls = @ \o <<r.call, q.call>>,
                                     !.pc = "eth_network"]
             ELSE [s EXCEPT !.rest = r.rest,
                            !.ether_type = r.header.ether_type,
                            !.result.vlan = Double(s.outer, r.header),
                            !.calls = Append(@, r.call),
                            !.pc = "eth_network"]
    ELSE [s EXCEPT !.result.vlan = Single(s.outer), !.pc = "eth_network"]

\* mutant: only VLAN_TAGGED_FRAME announces a second tag
EthVlanInner_OnlyTagged(s) ==
    IF s.ether_type = VLAN_TAGGED_FRAME
    THEN LET r == SingleVlanHeader_read_from_slice(s.packet, s.rest)
         IN  IF ~r.ok THEN Abort(s, r.error, <<r.call>>)
             ELSE [s EXCEPT !.rest = r.rest,
                            !.ether_type = r.header.ether_type,
                            !.result.vlan = Double(s.outer, r.header),
                            !.calls = Append(@, r.call),
                            !.pc = "eth_network"]
    ELSE [s EXCEPT !.result.vlan = Single(s.outer), !.pc = "eth_network"]

\* lines 48-65: the inner VLAN tag, or a single tag
EthVlanInner(s) ==
    IF s.ether_type \in {VLAN_TAGGED_FRAME, PROVIDER_BRIDGING, VLAN_DOUBLE_TAGGED_FRAME}
    THEN LET r == SingleVlanHeader_read_from_slice(s.packet, s.rest)
         IN  IF ~r.ok THEN Abort(s, r.error, <<r.call>>)
             ELSE [s EXCEPT !.rest = r.rest,
                            !.ether_type = r.header.ether_type,
                            !.result.vlan = Double(s.outer, r.header),
                            !.calls = Append(@, r.call),
                            !.pc = "eth_network"]
    ELSE [s EXCEPT !.result.vlan = Single(s.outer), !.pc = "eth_network"]

\* mutant: every ether type that is not IPv6 is decoded as IPv4
EthNetwork_DefaultIpv4(s) ==
    IF s.ether_type = IPV6
    THEN LET r == Ipv6Header_read_from_slice(s.packet, s.rest)
         IN  IF ~r.ok THEN Abort(s, r.error, <<r.call>>)
             ELSE [s EXCEPT !.protocol = r.header.next_header,
                            !.rest = r.rest,
                            !.result.ip = r.header,
                            !.calls = Append(@, r.call),
                            !.pc = "eth_skip"]
    ELSE LET r == Ipv4Header_read_from_slice(s.packet, s.rest)
         IN  IF ~r.ok THEN Abort(s, r.error, <<r.call>>)
             ELSE [s EXCEPT !.protocol = r.header.protocol,
                            !.rest = r.rest,
                            !.result.ip = r.header,
                            !.calls = Append(@, r.call),
                            !.pc = "eth_transport"]

\* lines 75-84, 94-102, 117: the IP header by ether type
EthNetwork(s) ==
    IF s.ether_type = IPV4
    THEN LET r == Ipv4Header_read_from_slice(s.packet, s.rest)
         IN  IF ~r.ok THEN Abort(s, r.error, <<r.call>>)
             ELSE [s EXCEPT !.protocol = r.header.protocol,
                            !.rest = r.rest,
                            !.result.ip = r.header,
                            !.calls = Append(@, r.call),
                            !.pc = "eth_transport"]
    ELSE IF s.ether_type = IPV6
    THEN LET r == Ipv6Header_read_from_slice(s.packet, s.rest)
         IN  IF ~r.ok THEN Abort(s, r.error, <<r.call>>)
             ELSE [s EXCEPT !.protocol = r.header.next_header,
                            !.rest = r.rest,
                            !.result.ip = r.header,
                            !.calls = Append(@, r.call),
                            !.pc = "eth_skip"]
    ELSE [s EXCEPT !.pc = "eth_finish"]

\* mutant: the skipper's protocol number is dropped, the header's
\* next_header stays in use
EthSkipExtensions_KeepsNextHeader(s) ==
    LET r == Ipv6Header_skip_all_header_extensions_in_slice(s.packet, s.rest, s.protocol)
    IN  IF ~r.ok THEN Abort(s, r.error, <<r.call>>)
        ELSE [s EXCEPT !.rest = r.rest,
                       !.calls = Append(@, r.call),
                       !.pc = "eth_transport"]

\* lines 105-108: the IPv6 extension chain
EthSkipExtensions(s) ==
    LET r == Ipv6Header_skip_all_header_extensions_in_slice(s.packet, s.rest, s.protocol)
    IN  IF ~r.ok THEN Abort(s, r.error, <<r.call>>)
        ELSE [s EXCEPT !.protocol = r.protocol,
                       !.rest = r.rest,
                       !.calls = Append(@, r.call),
                       !.pc = "eth_transport"]

\* mutant: `rest = transport_rest` is left out
EthTransport_KeepsRest(s) ==
    LET r == read_transport(s.packet, s.protocol, s.rest)
    IN  IF ~r.ok THEN Abort(s, r.error, r.calls)
        ELSE [s EXCEPT !.result.transport = r.transport,
                       !.calls = @ \o r.calls,
                       !.pc = "eth_finish"]

\* lines 87-91 and 111-114: the transport header
EthTransport(s) ==
    LET r == read_transport(s.packet, s.protocol, s.rest)
    IN  IF ~r.ok THEN Abort(s, r.error, r.calls)
        ELSE [s EXCEPT !.rest = r.rest,
                       !.result.transport = r.transport,
                       !.calls = @ \o r.calls,
                       !.pc = "eth_finish"]

\* lines 120-123: payload and return
EthFinish(s) ==
    LET res == [s.result EXCEPT !.payload = s.rest]
    IN  [s EXCEPT !.result = res, !.ret = Ok(res), !.pc = "done"]

(**************************** from_ip_slice ********************************)
\* from_ip_slice, lines 157-167: the IP header, version sensed
IpNetwork(s) ==
    LET r == IpHeader_read_from_slice(s.packet, WholeSlice(s.packet))
    IN  IF ~r.ok THEN Abort(s, r.error, <<r.call>>)
        ELSE [s EXCEPT !.ip = r.header,
                       !.rest = r.rest,
                       !.calls = Append(@, r.call),
                       !.pc = "ip_protocol"]

\* mutant: the IPv6 next_header is used as it is, no chain is skipped
IpProtocol_NoSkip(s) ==
    IF s.ip.kind = "Version4"
    THEN [s EXCEPT !.protocol = s.ip.protocol,
                   !.result.ip = s.ip,
                   !.pc = "ip_transport"]
    ELSE [s EXCEPT !.protocol = s.ip.next_header,
                   !.result.ip = s.ip,
                   !.pc = "ip_transport"]

\* mutant: `result.ip = Some(ip)` is left out
IpProtocol_DropsIp(s) ==
    IF s.ip.kind = "Version4"
    THEN [s EXCEPT !.protocol = s.ip.protocol,
                   !.pc = "ip_transport"]
    ELSE LET r == Ipv6Header_skip_all_header_extensions_in_slice(
                      s.packet, s.rest, s.ip.next_header)
         IN  IF ~r.ok THEN Abort(s, r.error, <<r.call>>)
             ELSE [s EXCEPT !.protocol = r.protocol,
                            !.rest = r.rest,
                            !.calls = Append(@, r.call),
                            !.pc = "ip_transport"]

\* lines 170-180: the transport protocol number
IpProtocol(s) ==
    IF s.ip.kind = "Version4"
    THEN [s EXCEPT !.protocol = s.ip.protocol,
                   !.result.ip = s.ip,
                   !.pc = "ip_transport"]
    ELSE LET r == Ipv6Header_skip_all_header_extensions_in_slice(
                      s.packet, s.rest, s.ip.next_header)
         IN  IF ~r.ok THEN Abort(s, r.error, <<r.call>>)
             ELSE [s EXCEPT !.protocol = r.protocol,
                            !.rest = r.rest,
                            !.result.ip = s.ip,
                            !.calls = Append(@, r.call),
                            !.pc = "ip_transport"]

\* mutant: a failed transport decode falls back to "no transport header"
IpTransport_BestEffort(s) ==
    LET r == read_transport(s.packet, s.protocol, s.rest)
    IN  IF ~r.ok
        THEN [s EXCEPT !.calls = @ \o r.calls, !.pc = "ip_finish"]
        ELSE [s EXCEPT !.rest = r.rest,
                       !.result.transport = r.transport,
                       !.calls = @ \o r.calls,
                       !.pc = "ip_finish"]

\* lines 183-186: the transport header
IpTransport(s) ==
    LET r == read_transport(s.packet, s.protocol, s.rest)
    IN  IF ~r.ok THEN Abort(s, r.error, r.calls)
        ELSE [s EXCEPT !.rest = r.rest,
                       !.result.transport = r.transport,
                       !.calls = @ \o r.calls,
                       !.pc = "ip_finish"]

\* lines 188-190: payload and return
IpFinish(s) ==
    LET res == [s.result EXCEPT !.payload = s.rest]
    IN  [s EXCEPT !.result = res, !.ret = Ok(res), !.pc = "done"]

(*************************** whole calls ***********************************)
Step(s) ==
    CASE s.pc = "eth_link" -> EthLink(s)
      [] s.pc = "eth_vlan_outer" -> EthVlanOuter(s)
      [] s.pc = "eth_vlan_inner" -> EthVlanInner(s)
      [] s.pc = "eth_network" -> EthNetwork(s)
      [] s.pc = "eth_skip" -> EthSkipExtensions(s)
      [] s.pc = "eth_transport" -> EthTransport(s)
      [] s.pc = "eth_finish" -> EthFinish(s)
      [] s.pc = "ip_network" -> IpNetwork(s)
      [] s.pc = "ip_protocol" -> IpProtocol(s)
      [] s.pc = "ip_transport" -> IpTransport(s)
      [] s.pc = "ip_finish" -> IpFinish(s)
      [] OTHER -> s

RECURSIVE Run(_)
Run(s) == IF s.pc = "done" THEN s ELSE Run(Step(s))

\* PacketHeaders::from_ethernet_slice(packet), run to its return
from_ethernet_slice(p) == Run(CallState(p, "eth"))

\* PacketHeaders::from_ip_slice(packet), run to its return
from_ip_slice(p) == Run(CallState(p, "ip"))

(****************************** inputs *************************************)
\* bytes no decoder gives a meaning to: they differ from position to position
Fill(n, seed) == [i \in 1..n |-> 100 + ((seed + 3 * i) % 100)]

EthernetBytes(et) ==
    [i \in 1..ETHERNET2_SIZE |->
        IF i = 13 THEN et \div 256 ELSE IF i = 14 THEN et % 256 ELSE 200 + i]

VlanBytes(et) == <<0, 42, et \div 256, et % 256>>

Ipv4Bytes(version, ihl, proto) ==
    [i \in 1..(IF ihl < 5 THEN IPV4_MIN_SIZE ELSE ihl * 4) |->
        IF i = 1 THEN version * 16 + ihl ELSE IF i = 10 THEN proto ELSE 150 + i]

Ipv6Bytes(nh) ==
    [i \in 1..IPV6_SIZE |-> IF i = 1 THEN 96 ELSE IF i = 7 THEN nh ELSE 100 + i]

ExtBytes(nh, hlen) ==
    [i \in 1..((hlen + 1) * 8) |-> IF i = 1 THEN nh ELSE IF i = 2 THEN hlen ELSE 180 + i]

TcpBytes(data_offset) ==
    [i \in 1..(IF data_offset < 5 THEN TCP_MIN_SIZE ELSE data_offset * 4) |->
        IF i = 13 THEN data_offset * 16 ELSE 60 + i]

UdpBytes == [i \in 1..UDP_SIZE |-> 80 + i]

VlanMarkers == {VLAN_TAGGED_FRAME, PROVIDER_BRIDGING, VLAN_DOUBLE_TAGGED_FRAME}

EtherTypes == VlanMarkers \cup {IPV4, IPV6, ARP}

Protocols == {TCP, UDP, 99}

\* link header and tags: every tag but the last carries a VLAN marker
TagPairs ==
    {<<VLAN_TAGGED_FRAME, VLAN_TAGGED_FRAME>>, <<PROVIDER_BRIDGING, VLAN_TAGGED_FRAME>>,
     <<VLAN_DOUBLE_TAGGED_FRAME, PROVIDER_BRIDGING>>,
     <<VLAN_TAGGED_FRAME, VLAN_DOUBLE_TAGGED_FRAME>>}

LinkParts ==
    {EthernetBytes(e) : e \in EtherTypes}
    \cup {EthernetBytes(m) \o VlanBytes(e) : m \in VlanMarkers, e \in EtherTypes}
    \cup {EthernetBytes(tp[1]) \o VlanBytes(tp[2]) \o VlanBytes(e) :
            tp \in TagPairs, e \in EtherTypes}
    \cup {EthernetBytes(tp[1]) \o VlanBytes(tp[2]) \o VlanBytes(m) \o VlanBytes(e) :
            tp \in TagPairs, m \in VlanMarkers, e \in {IPV4, IPV6}}

NetworkParts ==
    {<<>>, Ipv4Bytes(4, 6, UDP), Ipv4Bytes(4, 4, UDP), Ipv4Bytes(5, 5, TCP)}
    \cup {Ipv4Bytes(4, 5, pr) : pr \in Protocols}
    \cup {Ipv6Bytes(pr) : pr \in Protocols}
    \cup {Ipv6Bytes(IPV6_HOP_BY_HOP) \o ExtBytes(pr, h) :
            pr \in Protocols, h \in 0..MaxHdrExtLen}
    \cup {Ipv6Bytes(IPV6_ROUTE) \o ExtBytes(IPV6_DEST_OPTIONS, 0) \o ExtBytes(UDP, h) :
            h \in 0..MaxHdrExtLen}
    \cup {Ipv6Bytes(IPV6_FRAG) \o ExtBytes(TCP, 0)}

TransportParts == {<<>>, UdpBytes, TcpBytes(5), TcpBytes(6), TcpBytes(4)}

PayloadLens == {0, MaxPayloadLen}

\* the input buffers of a call
Packets(e) ==
    {LET whole == l \o n \o t \o Fill(k, Len(n) + Len(t))
     IN  SubSeq(whole, 1, IF Len(whole) < c THEN 0 ELSE Len(whole) - c) :
        l \in (IF e = "eth" THEN LinkParts ELSE {<<>>}),
        n \in NetworkParts, t \in TransportParts, k \in PayloadLens, c \in 0..MaxCut}

(**************************** specification ********************************)
State ==
    [packet |-> packet, entry |-> entry, pc |-> pc, rest |-> rest,
     ether_type |-> ether_type, outer |-> outer, ip |-> ip, protocol |-> protocol,
     result |-> result, ret |-> ret, calls |-> calls]

Becomes(t) ==
    /\ packet' = t.packet
    /\ entry' = t.entry
    /\ pc' = t.pc
    /\ rest' = t.rest
    /\ ether_type' = t.ether_type
    /\ outer' = t.outer
    /\ ip' = t.ip
    /\ protocol' = t.protocol
    /\ result' = t.result
    /\ ret' = t.ret
    /\ calls' = t.calls

StartsAs(t) ==
    /\ packet = t.packet
    /\ entry = t.entry
    /\ pc = t.pc
    /\ rest = t.rest
    /\ ether_type = t.ether_type
    /\ outer = t.outer
    /\ ip = t.ip
    /\ protocol = t.protocol
    /\ result = t.result
    /\ ret = t.ret
    /\ calls = t.calls

Init ==
    \E e \in {"eth", "ip"} : \E p \in Packets(e) : StartsAs(CallState(p, e))

DoEthLink == pc = "eth_link" /\ Becomes(EthLink(State))

DoEthVlanOuter == pc = "eth_vlan_outer" /\ Becomes(EthVlanOuter(State))

DoEthVlanInner == pc = "eth_vlan_inner" /\ Becomes(EthVlanInner(State))

DoEthNetwork == pc = "eth_network" /\ Becomes(EthNetwork(State))

DoEthSkipExtensions == pc = "eth_skip" /\ Becomes(EthSkipExtensions(State))

DoEthTransport == pc = "eth_transport" /\ Becomes(EthTransport(State))

DoEthFinish == pc = "eth_finish" /\ Becomes(EthFinish(State))

DoIpNetwork == pc = "ip_network" /\ Becomes(IpNetwork(State))

DoIpProtocol == pc = "ip_protocol" /\ Becomes(IpProtocol(State))

DoIpTransport == pc = "ip_transport" /\ Becomes(IpTransport(State))

DoIpFinish == pc = "ip_finish" /\ Becomes(IpFinish(State))

Next ==
    \/ DoEthLink
    \/ DoEthVlanOuter
    \/ DoEthVlanInner
    \/ DoEthNetwork
    \/ DoEthSkipExtensions
    \/ DoEthTransport
    \/ DoEthFinish
    \/ DoIpNetwork
    \/ DoIpProtocol
    \/ DoIpTransport
    \/ DoIpFinish

Spec == Init /\ [][Next]_vars

(***************************************************************************)
(*                               Properties                                *)
(***************************************************************************)
Returned == pc = "done"

Succeeded == ret.tag = "Ok"

\* byte length of a decoded header (0 when the field is unset)
HeaderLen(h) == IF h = None THEN 0 ELSE Len(h.bytes)

VlanLen(v) ==
    IF v = None THEN 0
    ELSE IF v.kind = "Single" THEN HeaderLen(v.outer)
    ELSE HeaderLen(v.outer) + HeaderLen(v.inner)

\* len(link) + len(vlan) + len(ip) + len(transport) + len(payload)
StackLen(h) ==
    HeaderLen(h.link) + VlanLen(h.vlan) + HeaderLen(h.ip) + HeaderLen(h.transport)
    + h.payload.len

SkipperCalls == {i \in 1..Len(calls) : calls[i].name = "skip_all_header_extensions"}

\* bytes the extension-chain skipper consumed in this call
RECURSIVE SumConsumed(_)
SumConsumed(S) ==
    IF S = {} THEN 0
    ELSE LET i == CHOOSE x \in S : TRUE
         IN  (calls[i].arg.len - calls[i].rest.len) + SumConsumed(S \ {i})

SkippedLen == SumConsumed(SkipperCalls)

\* C1 as stated: on every Ok return the lengths of the present link, vlan, ip
\* and transport headers plus the payload length equal the input length, also
\* when the skipper consumed a non-empty IPv6 extension chain.
C1_ByteConservation ==
    (Returned /\ Succeeded) => StackLen(ret.value) = Len(packet)

\* C1 amended: on every Ok return the header lengths plus the payload length
\* plus the bytes consumed by the extension-chain skipper equal the input
\* length; the extension bytes belong to no header field and not to payload.
C1_ByteConservationWithSkipped ==
    (Returned /\ Succeeded) =>
        /\ StackLen(ret.value) + SkippedLen = Len(packet)
        /\ (SkippedLen = 0 => StackLen(ret.value) = Len(packet))
        /\ ret.value.payload.off + ret.value.payload.len = Len(packet)

C1_Witness ==
    /\ Returned /\ Succeeded
    /\ ret.value.ip # None /\ ret.value.ip.kind = "Version6"
    /\ ret.value.transport # None
    /\ SkippedLen > 0
    /\ ret.value.payload.len > 0

\* C7 as stated: in every returned stack a field is populated only if every
\* field above it in the order link, vlan, ip, transport is populated.
C7_StrictTopDown ==
    (Returned /\ Succeeded) =>
        LET h == ret.value
        IN  /\ (h.vlan # None => h.link # None)
            /\ (h.ip # None => (h.vlan # None /\ h.link # None))
            /\ (h.transport # None => (h.ip # None /\ h.vlan # None /\ h.link # None))

\* C7 amended: transport is populated only if ip is; vlan only if link is;
\* from_ethernet_slice always populates link; from_ip_slice never populates
\* link or vlan.  vlan may be absent with ip present, and from_ip_slice
\* returns ip without link.
C7_TransportNeedsIpVlanNeedsLink ==
    (Returned /\ Succeeded) =>
        LET h == ret.value
        IN  /\ (h.transport # None => h.ip # None)
            /\ (h.vlan # None => h.link # None)
            /\ (entry = "eth" => h.link # None)
            /\ (entry = "ip" => (h.link = None /\ h.vlan = None /\ h.ip # None))

C7_Witness ==
    /\ Returned /\ Succeeded /\ entry = "eth"
    /\ ret.value.link # None /\ ret.value.vlan = None
    /\ ret.value.ip # None /\ ret.value.transport # None

FailedCalls == {i \in 1..Len(calls) : ~calls[i].ok}

CallNames == {calls[i].name : i \in 1..Len(calls)}

\* C2: if any invoked collaborator fails, the call returns that failure and
\* no PacketHeaders value, whatever the working result already holds; a call
\* returns Ok only if every collaborator it invoked succeeded; nothing is
\* invoked after a failure.
C2_AllOrNothing ==
    /\ (FailedCalls # {} =>
            /\ Returned
            /\ ret.tag = "Err"
            /\ DOMAIN ret = {"tag", "error"}
            /\ FailedCalls = {Len(calls)}
            /\ ret.error = calls[Len(calls)].error)
    /\ (Succeeded => FailedCalls = {})
    /\ (Returned => ((ret.tag = "Err" /\ FailedCalls # {}) \/ ret.tag = "Ok"))
    /\ (~Returned => ret = Pending)

C2_Witness ==
    /\ Returned /\ ret.tag = "Err"
    /\ result.link # None /\ result.vlan # None /\ result.ip # None
    /\ calls[Len(calls)].name \in {"TcpHeader", "UdpHeader"}

\* what the input bytes say, read independently of the decoder
EtherTypeAt(o) == IF Len(packet) >= o + 2 THEN U16(packet[o + 1], packet[o + 2]) ELSE -1

LinkEtherType == EtherTypeAt(12)

OuterEtherType == EtherTypeAt(16)

InnerEtherType == EtherTypeAt(20)

TagAt(o) ==
    IF Len(packet) < o + 4 THEN None
    ELSE [kind |-> "SingleVlan", ether_type |-> EtherTypeAt(o + 2),
          bytes |-> SubSeq(packet, o + 1, o + 4)]

VlanCalls == {i \in 1..Len(calls) : calls[i].name = "SingleVlanHeader"}

\* C3: the VLAN-tag collaborator is invoked at most twice per call; when the
\* ether types of the link header, the outer tag and the inner tag are all
\* VLAN markers the result is exactly Double(outer, inner), ip and transport
\* are unset, and payload is everything after the second tag.
C3_DoubleTagCap ==
    /\ Cardinality(VlanCalls) <= 2
    /\ (entry = "ip" => VlanCalls = {})
    /\ (/\ Returned /\ entry = "eth" /\ Len(packet) >= 22
        /\ LinkEtherType \in VlanMarkers
        /\ OuterEtherType \in VlanMarkers
        /\ InnerEtherType \in VlanMarkers)
       => /\ Succeeded
          /\ ret.value.vlan = Double(TagAt(14), TagAt(18))
          /\ ret.value.ip = None
          /\ ret.value.transport = None
          /\ ret.value.payload = Slice(22, Len(packet) - 22)
          /\ Len(calls) = 3

\* a third tag announcing IPv4, followed by a complete IPv4 header
C3_Witness ==
    /\ Returned /\ Succeeded /\ entry = "eth"
    /\ Len(packet) >= 46
    /\ LinkEtherType \in VlanMarkers
    /\ OuterEtherType \in VlanMarkers
    /\ InnerEtherType \in VlanMarkers
    /\ EtherTypeAt(24) = IPV4
    /\ packet[27] = 69
    /\ ret.value.vlan.kind = "Double"
    /\ ret.value.payload.len = Len(packet) - 22

\* number of tags and effective ether type the input bytes call for
ExpectedTags ==
    IF LinkEtherType \notin VlanMarkers THEN 0
    ELSE IF Len(packet) >= 18 /\ OuterEtherType \in VlanMarkers THEN 2
    ELSE 1

ExpectedLinkLen == 14 + 4 * ExpectedTags

EffectiveEtherType == EtherTypeAt(ExpectedLinkLen - 2)

NetworkAndTransportNames ==
    {"Ipv4Header", "Ipv6Header", "IpHeader", "skip_all_header_extensions",
     "TcpHeader", "UdpHeader"}

\* C4: in from_ethernet_slice, when the link and VLAN collaborators succeed
\* and the effective ether type is neither IPv4 nor IPv6, the call succeeds,
\* no IP, extension-chain or transport collaborator is invoked, ip and
\* transport are unset and payload is every byte after link and tags.
C4_GracefulStop ==
    (/\ Returned /\ entry = "eth"
     /\ Len(packet) >= 14
     /\ Len(packet) >= ExpectedLinkLen
     /\ EffectiveEtherType \notin {IPV4, IPV6})
    => /\ Succeeded
       /\ CallNames \cap NetworkAndTransportNames = {}
       /\ ret.value.link # None
       /\ ret.value.ip = None
       /\ ret.value.transport = None
       /\ ret.value.payload = Slice(ExpectedLinkLen, Len(packet) - ExpectedLinkLen)
       /\ Len(calls) = 1 + ExpectedTags

C4_Witness ==
    /\ Returned /\ Succeeded /\ entry = "eth"
    /\ ExpectedTags = 1
    /\ EffectiveEtherType = ARP
    /\ ret.value.vlan.kind = "Single"
    /\ ret.value.ip = None
    /\ ret.value.payload.len > 20

IpLayerNames == {"Ipv4Header", "Ipv6Header", "IpHeader", "skip_all_header_extensions"}

IpLayerCalls == {i \in 1..Len(calls) : calls[i].name \in IpLayerNames}

\* the last IP-layer collaborator invoked
LastIpLayerCall == CHOOSE i \in IpLayerCalls : \A j \in IpLayerCalls : j <= i

\* the protocol number the IP layer resolved, read from the input bytes and
\* the skipper's answer
ResolvedProtocol ==
    LET c == calls[LastIpLayerCall]
    IN  IF c.name = "skip_all_header_extensions" THEN c.final
        ELSE packet[c.arg.off + 10]

\* the IP layer is decoded: the last IP-layer collaborator the header calls
\* for has succeeded
IpLayerDone ==
    /\ IpLayerCalls # {}
    /\ calls[LastIpLayerCall].ok
    /\ \/ calls[LastIpLayerCall].name = "skip_all_header_extensions"
       \/ /\ calls[LastIpLayerCall].name \in {"Ipv4Header", "IpHeader"}
          /\ packet[calls[LastIpLayerCall].arg.off + 1] \div 16 = 4

\* C5: read_transport answers every protocol number other than TCP and UDP
\* with (None, slice unchanged) and no collaborator call; so a decoded IP
\* header whose resolved protocol is neither TCP nor UDP gives Ok with
\* transport unset and payload equal to all bytes after the IP header and
\* the skipped extension chain.
C5_UnknownTransport ==
    /\ (pc \in {"eth_transport", "ip_transport"} =>
          \A pr \in (0..255) \ {TCP, UDP} :
             LET r == read_transport(packet, pr, rest)
             IN  r.ok /\ r.transport = None /\ r.rest = rest /\ r.calls = <<>>)
    /\ (Returned /\ IpLayerDone /\ ResolvedProtocol \notin {TCP, UDP})
       => /\ Succeeded
          /\ LastIpLayerCall = Len(calls)
          /\ ret.value.ip # None
          /\ ret.value.transport = None
          /\ ret.value.payload = calls[LastIpLayerCall].rest
          /\ ret.value.payload.off + ret.value.payload.len = Len(packet)

C5_Witness ==
    /\ Returned /\ Succeeded
    /\ ret.value.ip # None /\ ret.value.ip.kind = "Version4"
    /\ ret.value.ip.protocol = 99
    /\ ret.value.transport = None
    /\ ret.value.payload.len >= 10

\* the sub-buffer that starts at the IP header: the input minus the link
\* header and the decoded VLAN tags
NetworkPart(h) ==
    SubSeq(packet, HeaderLen(h.link) + VlanLen(h.vlan) + 1, Len(packet))

\* C6: when from_ethernet_slice succeeds with ip set, from_ip_slice on the
\* sub-buffer starting at the IP header succeeds with the same ip, transport
\* and payload bytes and with link and vlan unset; from_ip_slice never sets
\* link or vlan.
C6_NetworkEntryEquivalence ==
    /\ (Returned /\ Succeeded /\ entry = "eth" /\ ret.value.ip # None)
       => LET h == ret.value
              sub == NetworkPart(h)
              r == from_ip_slice(sub)
          IN  /\ r.ret.tag = "Ok"
              /\ r.ret.value.ip = h.ip
              /\ r.ret.value.transport = h.transport
              /\ Bytes(sub, r.ret.value.payload) = Bytes(packet, h.payload)
              /\ r.ret.value.link = None
              /\ r.ret.value.vlan = None
    /\ (entry = "ip" => (result.link = None /\ result.vlan = None))
    /\ ((entry = "ip" /\ Succeeded) =>
            (ret.value.link = None /\ ret.value.vlan = None))

C6_Witness ==
    /\ Returned /\ Succeeded /\ entry = "eth"
    /\ ret.value.vlan # None
    /\ ret.value.ip # None /\ ret.value.ip.kind = "Version6"
    /\ SkippedLen > 0
    /\ ret.value.transport # None /\ ret.value.transport.kind = "Udp"
    /\ ret.value.payload.len > 0

\* C8: each collaborator is handed exactly the remainder returned by the
\* previous one (the first gets the whole input); every remainder is a
\* suffix of the input at or after the position it was cut from; on Ok,
\* payload is the remainder returned by the last collaborator invoked.
C8_PayloadIsFinalRemainder ==
    /\ \A i \in 1..Len(calls) :
          /\ calls[i].arg = (IF i = 1 THEN WholeSlice(packet) ELSE calls[i - 1].rest)
          /\ calls[i].rest.off + calls[i].rest.len = Len(packet)
          /\ calls[i].rest.off >= calls[i].arg.off
          /\ calls[i].rest.off <= Len(packet)
    /\ (pc \notin {"eth_link", "ip_network", "done"} =>
            (Len(calls) >= 1 /\ rest = calls[Len(calls)].rest))
    /\ ((Returned /\ Succeeded) =>
            (Len(calls) >= 1 /\ ret.value.payload = calls[Len(calls)].rest))

C8_Witness ==
    /\ Returned /\ Succeeded
    /\ Len(calls) >= 5
    /\ ret.value.payload.len > 0
    /\ ret.value.payload.off > 60

\* C9: on success of from_ethernet_slice vlan is None exactly when the link
\* ether type is no VLAN marker, Single(outer) exactly when the link ether
\* type is a marker and the outer tag's is not, Double(outer, inner) exactly
\* when both are; the ether type used for network dispatch is that of the
\* last header decoded among link, outer tag and inner tag.
C9_VlanPresence ==
    (Returned /\ Succeeded /\ entry = "eth") =>
        LET h == ret.value
            last == IF h.vlan = None THEN h.link.ether_type
                    ELSE IF h.vlan.kind = "Single" THEN h.vlan.outer.ether_type
                    ELSE h.vlan.inner.ether_type
        IN  /\ (h.vlan = None <=> LinkEtherType \notin VlanMarkers)
            /\ (h.vlan = Single(TagAt(14)) <=>
                    (LinkEtherType \in VlanMarkers /\ OuterEtherType \notin VlanMarkers))
            /\ (h.vlan = Double(TagAt(14), TagAt(18)) <=>
                    (LinkEtherType \in VlanMarkers /\ OuterEtherType \in VlanMarkers))
            /\ h.link.ether_type = LinkEtherType
            /\ last = EffectiveEtherType
            /\ ether_type = last
            /\ ((h.ip # None /\ h.ip.kind = "Version4") <=> last = IPV4)
            /\ ((h.ip # None /\ h.ip.kind = "Version6") <=> last = IPV6)
            /\ (h.ip = None <=> last \notin {IPV4, IPV6})

C9_Witness ==
    /\ Returned /\ Succeeded /\ entry = "eth"
    /\ LinkEtherType = PROVIDER_BRIDGING
    /\ ret.value.vlan # None /\ ret.value.vlan.kind = "Single"
    /\ ret.value.ip # None /\ ret.value.ip.kind = "Version4"

IpHeaderCalls ==
    {i \in 1..Len(calls) : calls[i].name \in {"Ipv4Header", "Ipv6Header", "IpHeader"}}

TransportCalls == {i \in 1..Len(calls) : calls[i].name \in {"TcpHeader", "UdpHeader"}}

\* IP version of the header a successful IP collaborator call decoded
VersionOf(c) == packet[c.arg.off + 1] \div 16

\* the transport collaborator a protocol number selects
CollaboratorFor(pr) ==
    IF pr = TCP THEN "TcpHeader" ELSE IF pr = UDP THEN "UdpHeader" ELSE "none"

KindFor(pr) == IF pr = TCP THEN "Tcp" ELSE IF pr = UDP THEN "Udp" ELSE "None"

AtOrAfterTransportDispatch ==
    \/ pc \in {"eth_transport", "eth_finish", "ip_transport", "ip_finish"}
    \/ (Returned /\ Succeeded /\ ret.value.ip # None)
    \/ TransportCalls # {}

\* C10: for an IPv6 header the extension-chain skipper is invoked exactly
\* once, right after the IPv6 header collaborator and before transport
\* dispatch, seeded with the header's next_header; transport dispatch uses
\* the protocol number and remainder the skipper returned.  For IPv4 the
\* skipper is never invoked and the header's protocol field is used.
C10_Ipv6Ordering ==
    /\ Cardinality(SkipperCalls) <= 1
    /\ Cardinality(IpHeaderCalls) <= 1
    /\ \A i \in SkipperCalls :
          /\ i > 1
          /\ calls[i - 1].name \in {"Ipv6Header", "IpHeader"}
          /\ calls[i - 1].ok
          /\ VersionOf(calls[i - 1]) = 6
          /\ calls[i].seed = packet[calls[i - 1].arg.off + 7]
          /\ calls[i].arg = calls[i - 1].rest
    /\ \A j \in TransportCalls :
          /\ j > 1
          /\ calls[j - 1].ok
          /\ calls[j - 1].name \in IpLayerNames
          /\ calls[j].arg = calls[j - 1].rest
          /\ ResolvedProtocol \in {TCP, UDP}
          /\ calls[j].name = CollaboratorFor(ResolvedProtocol)
    /\ \A k \in IpHeaderCalls :
          (calls[k].ok /\ AtOrAfterTransportDispatch) =>
              /\ (VersionOf(calls[k]) = 6 => SkipperCalls = {k + 1} /\ calls[k + 1].ok)
              /\ (VersionOf(calls[k]) = 4 => SkipperCalls = {})
              /\ (pc \in {"eth_transport", "ip_transport"} =>
                      (protocol = ResolvedProtocol /\ rest = calls[Len(calls)].rest))
              /\ ((Returned /\ Succeeded) =>
                      ret.value.transport.kind = KindFor(ResolvedProtocol))
    /\ \A k \in IpHeaderCalls :
          (calls[k].ok /\ VersionOf(calls[k]) = 4) => SkipperCalls = {}

C10_Witness ==
    /\ Returned /\ Succeeded
    /\ ret.value.ip # None /\ ret.value.ip.kind = "Version6"
    /\ ret.value.ip.next_header = IPV6_ROUTE
    /\ SkippedLen >= 16
    /\ ret.value.transport # None /\ ret.value.transport.kind = "Udp"

====
